---------------------------- MODULE Spec2Model ----------------------------
(***************************************************************************)
(* Model of the two notebooks of xc-course-examples.                       *)
(*                                                                         *)
(*  - the CPU/GPU comparison notebook (src/unnamed/part_000): the cells    *)
(*    Step 2 .. Step 6 run top to bottom, measure_time is modelled line by *)
(*    line (bind, start clock, matmul, numpy, stop clock, return);         *)
(*  - the kernel notebook (src/gpu_optimization.ipynb): the three timed    *)
(*    launches, every thread of every launch a process of its own, the     *)
(*    shared arrays of a block a flat window of shared memory.             *)
(*                                                                         *)
(* Library calls whose outcome the notebooks do not control are inputs     *)
(* drawn where the call is made: a reading of time.time(), an answer of    *)
(* tf.test.is_gpu_available(), whether the device named in tf.device()     *)
(* exists, and what an access outside a declared array does.               *)
(*                                                                         *)
(* Sizes are scaled: the thread counts 256 / 512 / 1024*1024 of the kernel *)
(* notebook keep their ratios (block 256 = shared array length, block 512  *)
(* = twice that, N a multiple of both), the matrices are matrix_size       *)
(* square.                                                                 *)
(***************************************************************************)
EXTENDS Integers, Sequences, FiniteSets

\* ---------------------------------------------------------------- bounds
MaxTime == 1
MaxVal == 1
MaxSeed == 1
MaxDim == 2

Times == 0..MaxTime
Values == 0..MaxVal
Seeds == 0..MaxSeed

\* ------------------------------------------------------ program constants
\* matrix_size = 5000, scaled
matrix_size == MaxDim
\* The kernel notebook's sizes, divided by 128 (and N by a further 2048):
\* what the notebook fixes is kept, block 256 = the declared length of the
\* shared arrays, block 512 = twice that, N a multiple of both.
\* __shared__ float shared_a[256], shared_b[256]
SharedLen == 2
\* block_size = 256 (Step 1, reused by Step 2)
BlockSizeStep1 == 2
\* block_size = 512 (Step 3)
BlockSizeStep3 == 4
\* an N that is not a multiple of the block sizes
N_NotMultiple == 4 - 1
\* N = 1024 * 1024
N == 4

CPU == "/CPU:0"
GPU == "/GPU:0"
Unset == << >>
FaultVal == 0 - 1
\* the content of memory that was allocated and never written: what a read
\* of it yields is chosen when it is read
Indeterminate == 0 - 2

VARIABLES
    nb,          \* which notebook runs: "bench" or "kernel"
    pc,          \* the statement the notebook is at
    error,       \* the exception that ended the run, "none" while it runs
    out,         \* the lines printed so far
    log,         \* the events of the run, in order
    seed,        \* the state of the random generator the inputs came from
    \* comparison notebook
    A, B, result, dev, present, placed, probe5, probe6,
    start_time, end_time, cpu_time, gpu_time,
    \* kernel notebook
    kstep, a, b, c, a_gpu, b_gpu, c_gpu, block_size, grid_size,
    layout, kernel, tpc, shmem, fault, writers, accessed

benchVars == << A, B, result, dev, present, placed, probe5, probe6,
                cpu_time, gpu_time >>
kernelVars == << kstep, a, b, c, a_gpu, b_gpu, c_gpu, block_size,
                 grid_size, layout, kernel, tpc, shmem, fault, writers,
                 accessed >>
vars == << nb, pc, error, out, log, seed, start_time, end_time,
           benchVars, kernelVars >>

\* ----------------------------------------------------------- pure helpers
Idx == 1..matrix_size

\* tf.random.normal((matrix_size, matrix_size)): the matrix a seed yields
GenMatrix(s, k) == [i \in Idx, j \in Idx |-> ((i * k + j + s) % 3) - 1]

RECURSIVE DotFrom(_, _, _, _, _)
DotFrom(X, Y, i, j, k) ==
    IF k > matrix_size THEN 0
    ELSE X[i, k] * Y[k, j] + DotFrom(X, Y, i, j, k + 1)

\* tf.matmul(A, B)
MatMul(X, Y) == [i \in Idx, j \in Idx |-> DotFrom(X, Y, i, j, 1)]

\* np.random.rand(N).astype(np.float32): the array a seed yields
GenArray(s, k, len) == [i \in 0..(len - 1) |-> ((i + 1) * k + s + (i \div 2)) % (MaxVal + 1)]

\* grid_size = (N + block_size - 1) // block_size
GridSize(bs) == (N + bs - 1) \div bs

Say(line) == out' = Append(out, line)
Event(e) == log' = Append(log, e)

\* ------------------------------------------------- comparison notebook
InitBench ==
    /\ nb = "bench" /\ pc = "step2" /\ error = "none"
    /\ out = << >> /\ log = << >> /\ seed = 0
    /\ A = Unset /\ B = Unset /\ result = Unset
    /\ dev = "none" /\ present = TRUE /\ placed = "none"
    /\ probe5 = Unset /\ probe6 = Unset
    /\ start_time = Unset /\ end_time = Unset
    /\ cpu_time = Unset /\ gpu_time = Unset
    /\ kstep = 0 /\ a = Unset /\ b = Unset /\ c = Unset
    /\ a_gpu = Unset /\ b_gpu = Unset /\ c_gpu = Unset
    /\ block_size = 0 /\ grid_size = 0 /\ layout = "none"
    /\ kernel = "none" /\ tpc = << >> /\ shmem = << >> /\ fault = FALSE
    /\ writers = << >> /\ accessed = {}

\* Step 2: print the availability probe and the device name
Step2 ==
    /\ nb = "bench" /\ pc = "step2"
    /\ \E r \in BOOLEAN : Say(<<"Is there a GPU available?:", <<r>> >>)
    /\ pc' = "step3"
    /\ UNCHANGED << nb, error, log, seed, start_time, end_time, benchVars, kernelVars >>

\* Step 3: generate A and B, define measure_time
Step3 ==
    /\ nb = "bench" /\ pc = "step3"
    /\ \E s \in Seeds :
          /\ seed' = s
          /\ A' = GenMatrix(s, 1)
          /\ B' = GenMatrix(s, 2)
    /\ Event("generate")
    /\ pc' = "step4"
    /\ UNCHANGED << nb, error, out, start_time, end_time, result, dev, present,
                    placed, probe5, probe6, cpu_time, gpu_time, kernelVars >>

\* Step 4: print the banner and call measure_time('/CPU:0')
Step4 ==
    /\ nb = "bench" /\ pc = "step4"
    /\ Say(<<"Performing computation on CPU...", << >> >>)
    /\ dev' = CPU
    /\ Event("call_cpu")
    /\ pc' = "mt_bind"
    /\ UNCHANGED << nb, error, seed, start_time, end_time, A, B, result, present,
                    placed, probe5, probe6, cpu_time, gpu_time, kernelVars >>

\* measure_time: with tf.device(device_name). The CPU always exists; whether
\* the GPU named exists is the host's answer when the context is entered.
MT_Bind ==
    /\ nb = "bench" /\ pc = "mt_bind"
    /\ \E p \in BOOLEAN : present' = ((dev = CPU) \/ p)
    /\ Event("bind")
    /\ pc' = "mt_start"
    /\ UNCHANGED << nb, error, out, seed, start_time, end_time, A, B, result, dev,
                    placed, probe5, probe6, cpu_time, gpu_time, kernelVars >>

\* measure_time: start_time = time.time(). time.time() is the system's wall
\* clock: a reading is any value, it may be lower than an earlier reading.
MT_Start ==
    /\ nb = "bench" /\ pc = "mt_start"
    /\ \E t \in Times : start_time' = <<t>>
    /\ Event("start")
    /\ pc' = "mt_matmul"
    /\ UNCHANGED << nb, error, out, seed, end_time, benchVars, kernelVars >>

\* measure_time: result = tf.matmul(A, B). measure_time checks nothing about
\* the device: with the device absent TensorFlow either refuses the placement
\* (the exception leaves measure_time) or, under soft device placement, runs
\* the operation on the CPU.
MT_Matmul ==
    /\ nb = "bench" /\ pc = "mt_matmul"
    /\ \E soft \in BOOLEAN :
          IF present \/ soft
          THEN /\ result' = MatMul(A, B)
               /\ placed' = IF present THEN dev ELSE CPU
               /\ Event("op")
               /\ pc' = "mt_numpy"
               /\ error' = error
          ELSE /\ pc' = "failed"
               /\ error' = "InvalidArgumentError"
               /\ UNCHANGED << result, placed, log >>
    /\ UNCHANGED << nb, out, seed, start_time, end_time, A, B, dev, present,
                    probe5, probe6, cpu_time, gpu_time, kernelVars >>

\* measure_time without the result.numpy() line: the stop clock follows the matmul
MT_Numpy_NoMaterialize ==
    /\ nb = "bench" /\ pc = "mt_numpy"
    /\ \E t \in Times : end_time' = <<t>>
    /\ Event("stop")
    /\ pc' = "mt_return"
    /\ UNCHANGED << nb, error, out, seed, start_time, benchVars, kernelVars >>

\* measure_time: _ = result.numpy()
MT_Numpy ==
    /\ nb = "bench" /\ pc = "mt_numpy"
    /\ Event("materialize")
    /\ pc' = "mt_stop"
    /\ UNCHANGED << nb, error, out, seed, start_time, end_time, benchVars, kernelVars >>

\* measure_time: end_time = time.time()
MT_Stop ==
    /\ nb = "bench" /\ pc = "mt_stop"
    /\ \E t \in Times : end_time' = <<t>>
    /\ Event("stop")
    /\ pc' = "mt_return"
    /\ UNCHANGED << nb, error, out, seed, start_time, benchVars, kernelVars >>

\* measure_time: return end_time - start_time, then the caller's assignment
\* and print (Step 4: cpu_time, Step 5: gpu_time)
MT_Return ==
    /\ nb = "bench" /\ pc = "mt_return"
    /\ LET d == end_time[1] - start_time[1] IN
          IF dev = CPU
          THEN /\ cpu_time' = <<d>>
               /\ Say(<<"Time taken on CPU", <<d>> >>)
               /\ pc' = "step5"
               /\ UNCHANGED gpu_time
          ELSE /\ gpu_time' = <<d>>
               /\ Say(<<"Time taken on GPU", <<d>> >>)
               /\ pc' = "step6"
               /\ UNCHANGED cpu_time
    /\ Event("return")
    /\ UNCHANGED << nb, error, seed, start_time, end_time, A, B, result, dev,
                    present, placed, probe5, probe6, kernelVars >>

\* Step 5 without the availability test: the GPU is timed whatever the probe says
Step5_NoGate ==
    /\ nb = "bench" /\ pc = "step5"
    /\ \E r \in BOOLEAN :
          /\ probe5' = <<r>>
          /\ Say(<<"Performing computation on GPU...", << >> >>)
          /\ dev' = GPU
          /\ Event("call_gpu")
          /\ pc' = "mt_bind"
    /\ UNCHANGED << nb, error, seed, start_time, end_time, A, B, result, present,
                    placed, probe6, cpu_time, gpu_time, kernelVars >>

\* Step 5: probe, then time the GPU or print the skip line
Step5 ==
    /\ nb = "bench" /\ pc = "step5"
    /\ \E r \in BOOLEAN :
          /\ probe5' = <<r>>
          /\ IF r
             THEN /\ Say(<<"Performing computation on GPU...", << >> >>)
                  /\ dev' = GPU
                  /\ Event("call_gpu")
                  /\ pc' = "mt_bind"
             ELSE /\ Say(<<"No GPU available. Skipping GPU computation.", << >> >>)
                  /\ pc' = "step6"
                  /\ UNCHANGED << dev, log >>
    /\ UNCHANGED << nb, error, seed, start_time, end_time, A, B, result, present,
                    placed, probe6, cpu_time, gpu_time, kernelVars >>

\* Step 6: probe again, then print the comparison. The f-strings read
\* gpu_time (NameError when Step 5 never assigned it) and divide by it
\* (ZeroDivisionError when it is 0.0).
Step6 ==
    /\ nb = "bench" /\ pc = "step6"
    /\ \E r \in BOOLEAN :
          /\ probe6' = <<r>>
          /\ IF ~r
             THEN /\ Say(<<"Comparison not available as no GPU is detected.", << >> >>)
                  /\ pc' = "done"
                  /\ error' = error
             ELSE IF gpu_time = Unset
             THEN /\ out' = out \o << <<"Comparison:", << >> >>, <<"CPU time", cpu_time>> >>
                  /\ pc' = "failed"
                  /\ error' = "NameError"
             ELSE IF gpu_time[1] = 0
             THEN /\ out' = out \o << <<"Comparison:", << >> >>, <<"CPU time", cpu_time>>,
                                      <<"GPU time", gpu_time>> >>
                  /\ pc' = "failed"
                  /\ error' = "ZeroDivisionError"
             ELSE /\ out' = out \o << <<"Comparison:", << >> >>, <<"CPU time", cpu_time>>,
                                      <<"GPU time", gpu_time>>,
                                      <<"Speedup", cpu_time \o gpu_time>> >>
                  /\ pc' = "done"
                  /\ error' = error
    /\ UNCHANGED << nb, log, seed, start_time, end_time, A, B, result, dev, present,
                    placed, probe5, cpu_time, gpu_time, kernelVars >>

\* ------------------------------------------------------ kernel notebook
InitKernel ==
    /\ nb = "kernel" /\ pc = "k_setup" /\ error = "none"
    /\ out = << >> /\ log = << >> /\ seed = 0
    /\ A = Unset /\ B = Unset /\ result = Unset
    /\ dev = "none" /\ present = TRUE /\ placed = "none"
    /\ probe5 = Unset /\ probe6 = Unset
    /\ start_time = Unset /\ end_time = Unset
    /\ cpu_time = Unset /\ gpu_time = Unset
    /\ kstep = 1 /\ a = Unset /\ b = Unset /\ c = Unset
    /\ a_gpu = Unset /\ b_gpu = Unset /\ c_gpu = Unset
    /\ block_size = 0 /\ grid_size = 0 /\ layout = "none"
    /\ kernel = "none" /\ tpc = << >> /\ shmem = << >> /\ fault = FALSE
    /\ writers = << >> /\ accessed = {}

Threads == (0..(grid_size - 1)) \X (0..(block_size - 1))

\* int gid = blockIdx.x * blockDim.x + threadIdx.x
Gid(blk, tid) == blk * block_size + tid

\* The shared arrays of a block lie side by side in the block's window of
\* shared memory, in the order the compiler chose.
Window == 0..(2 * SharedLen - 1)
AddrA(tid) == IF layout = "a_first" THEN tid ELSE SharedLen + tid
AddrB(tid) == IF layout = "a_first" THEN SharedLen + tid ELSE tid

\* A store through an index: inside the window it hits the cell at that
\* address (another array's, when the index is past the declared length);
\* outside the window it is dropped or the kernel faults.
StoreOutcomes(addr) == IF addr \in Window THEN {"hit"} ELSE {"dropped", "fault"}
Stored(mem, addr, v, o) == IF o = "hit" THEN [mem EXCEPT ![addr] = v] ELSE mem

\* A load through an index: the cell's value inside the window; outside it
\* any value, or a fault.
ReadCell(v) == IF v = Indeterminate THEN Values ELSE {v}
SharedLoad(mem, addr) == IF addr \in Window THEN ReadCell(mem[addr]) ELSE Values \cup {FaultVal}

\* A load from a device buffer: past the buffer's end any value, or a fault.
GlobalLoad(buf, i) == IF i \in DOMAIN buf THEN ReadCell(buf[i]) ELSE Values \cup {FaultVal}

\* Step 1, up to the block and grid sizes: the operands, the device buffers
\* (c_gpu is allocated and not initialised), the host-to-device copies.
K_SetupWith(la, lb) ==
    /\ nb = "kernel" /\ pc = "k_setup"
    /\ \E s \in Seeds :
          /\ seed' = s
          /\ a' = GenArray(s, 1, la)
          /\ b' = GenArray(s, 2, lb)
          /\ c' = [i \in 0..(N - 1) |-> 0]
          /\ a_gpu' = GenArray(s, 1, la)
          /\ b_gpu' = GenArray(s, 2, lb)
          /\ c_gpu' = [i \in 0..(N - 1) |-> Indeterminate]
    /\ block_size' = BlockSizeStep1
    /\ grid_size' = GridSize(BlockSizeStep1)
    /\ log' = log \o <<"generate", "htod">>
    /\ pc' = "k_start"
    /\ UNCHANGED << nb, error, out, start_time, end_time, benchVars, kstep, layout,
                    kernel, tpc, shmem, fault, writers, accessed >>

\* a, b and c all have N elements in the notebook
K_Setup == K_SetupWith(N, N)

\* Step 2: compile matrix_add_shared_memory
K_Compile2 ==
    /\ nb = "kernel" /\ pc = "k_compile2"
    /\ \E l \in {"a_first", "b_first"} : layout' = l
    /\ pc' = "k_start"
    /\ UNCHANGED << nb, error, out, log, seed, start_time, end_time, benchVars, kstep,
                    a, b, c, a_gpu, b_gpu, c_gpu, block_size, grid_size,
                    kernel, tpc, shmem, fault, writers, accessed >>

\* Step 3: block_size = 512, grid_size recomputed
K_Config3 ==
    /\ nb = "kernel" /\ pc = "k_config3"
    /\ block_size' = BlockSizeStep3
    /\ grid_size' = GridSize(BlockSizeStep3)
    /\ pc' = "k_start"
    /\ UNCHANGED << nb, error, out, log, seed, start_time, end_time, benchVars, kstep,
                    a, b, c, a_gpu, b_gpu, c_gpu, layout,
                    kernel, tpc, shmem, fault, writers, accessed >>

\* start_time = time.time()
K_Start ==
    /\ nb = "kernel" /\ pc = "k_start"
    /\ \E t \in Times : start_time' = <<t>>
    /\ Event("start")
    /\ pc' = "k_launch"
    /\ UNCHANGED << nb, error, out, seed, end_time, benchVars, kernelVars >>

\* the kernel call: Step 1 launches matrix_add_unoptimized, Steps 2 and 3
\* matrix_add_shared_memory, with block=(block_size,1,1), grid=(grid_size,1)
K_Launch ==
    /\ nb = "kernel" /\ pc = "k_launch"
    /\ kernel' = IF kstep = 1 THEN "unopt" ELSE "shared"
    /\ tpc' = [th \in Threads |-> "start"]
    /\ shmem' = IF kstep = 1 THEN << >>
                ELSE [blk \in 0..(grid_size - 1) |-> [ad \in Window |-> Indeterminate]]
    /\ writers' = [i \in DOMAIN c_gpu |-> {}]
    /\ accessed' = {}
    /\ fault' = FALSE
    /\ Event("op")
    /\ pc' = "k_dtoh"
    /\ UNCHANGED << nb, error, out, seed, start_time, end_time, benchVars, kstep,
                    a, b, c, a_gpu, b_gpu, c_gpu, block_size, grid_size, layout >>

\* the kernel storing the sum into a[gid] instead of c[gid]
T_Unopt_WritesA(blk, tid) ==
    /\ kernel = "unopt" /\ ~fault /\ tpc[<<blk, tid>>] = "start"
    /\ a_gpu' = [a_gpu EXCEPT ![Gid(blk, tid)] = a_gpu[Gid(blk, tid)] + b_gpu[Gid(blk, tid)]]
    /\ tpc' = [tpc EXCEPT ![<<blk, tid>>] = "done"]
    /\ UNCHANGED << nb, pc, error, out, log, seed, start_time, end_time, benchVars,
                    kstep, a, b, c, b_gpu, c_gpu, block_size, grid_size, layout,
                    kernel, shmem, fault, writers, accessed >>

\* matrix_add_unoptimized, one thread: if (gid < N) c[gid] = a[gid] + b[gid]
T_Unopt(blk, tid) ==
    /\ kernel = "unopt" /\ ~fault /\ tpc[<<blk, tid>>] = "start"
    /\ LET gid == Gid(blk, tid) IN
          IF gid < N
          THEN \E va \in GlobalLoad(a_gpu, gid), vb \in GlobalLoad(b_gpu, gid) :
                  IF va = FaultVal \/ vb = FaultVal
                  THEN /\ fault' = TRUE
                       /\ UNCHANGED << c_gpu, writers, tpc >>
                  ELSE /\ c_gpu' = [c_gpu EXCEPT ![gid] = va + vb]
                       /\ writers' = [writers EXCEPT ![gid] = @ \cup {<<blk, tid>>}]
                       /\ tpc' = [tpc EXCEPT ![<<blk, tid>>] = "done"]
                       /\ fault' = fault
          ELSE /\ tpc' = [tpc EXCEPT ![<<blk, tid>>] = "exit"]
               /\ UNCHANGED << c_gpu, writers, fault >>
    /\ UNCHANGED << nb, pc, error, out, log, seed, start_time, end_time, benchVars,
                    kstep, a, b, c, a_gpu, b_gpu, block_size, grid_size, layout,
                    kernel, shmem, accessed >>

\* matrix_add_shared_memory, one thread, up to the barrier:
\*   if (gid < N) { shared_a[tid] = a[gid]; shared_b[tid] = b[gid]; __syncthreads();
\* a thread with gid >= N leaves the kernel without reaching the barrier.
T_Load(blk, tid) ==
    /\ kernel = "shared" /\ ~fault /\ tpc[<<blk, tid>>] = "start"
    /\ LET gid == Gid(blk, tid) IN
          IF gid < N
          THEN \E oa \in StoreOutcomes(AddrA(tid)), ob \in StoreOutcomes(AddrB(tid)) :
                  /\ accessed' = accessed \cup {tid}
                  /\ IF oa = "fault" \/ ob = "fault"
                     THEN /\ fault' = TRUE
                          /\ UNCHANGED << shmem, tpc >>
                     ELSE /\ shmem' = [shmem EXCEPT ![blk] =
                                 Stored(Stored(@, AddrA(tid), a_gpu[gid], oa),
                                        AddrB(tid), b_gpu[gid], ob)]
                          /\ tpc' = [tpc EXCEPT ![<<blk, tid>>] = "barrier"]
                          /\ fault' = fault
          ELSE /\ tpc' = [tpc EXCEPT ![<<blk, tid>>] = "exit"]
               /\ UNCHANGED << shmem, fault, accessed >>
    /\ UNCHANGED << nb, pc, error, out, log, seed, start_time, end_time, benchVars,
                    kstep, a, b, c, a_gpu, b_gpu, c_gpu, block_size, grid_size,
                    layout, kernel, writers >>

\* __syncthreads(): the barrier of a block opens when every thread of the
\* block has arrived. A block where a thread left without arriving stays
\* closed.
T_Sync(blk) ==
    /\ kernel = "shared" /\ ~fault
    /\ \A tid \in 0..(block_size - 1) : tpc[<<blk, tid>>] = "barrier"
    /\ tpc' = [th \in DOMAIN tpc |-> IF th[1] = blk THEN "add" ELSE tpc[th]]
    /\ UNCHANGED << nb, pc, error, out, log, seed, start_time, end_time, benchVars,
                    kstep, a, b, c, a_gpu, b_gpu, c_gpu, block_size, grid_size,
                    layout, kernel, shmem, fault, writers, accessed >>

\* matrix_add_shared_memory, one thread, after the barrier:
\*   c[gid] = shared_a[tid] + shared_b[tid];
T_Add(blk, tid) ==
    /\ kernel = "shared" /\ ~fault /\ tpc[<<blk, tid>>] = "add"
    /\ LET gid == Gid(blk, tid) IN
          \E va \in SharedLoad(shmem[blk], AddrA(tid)), vb \in SharedLoad(shmem[blk], AddrB(tid)) :
             IF va = FaultVal \/ vb = FaultVal
             THEN /\ fault' = TRUE
                  /\ UNCHANGED << c_gpu, writers, tpc >>
             ELSE /\ c_gpu' = [c_gpu EXCEPT ![gid] = va + vb]
                  /\ writers' = [writers EXCEPT ![gid] = @ \cup {<<blk, tid>>}]
                  /\ tpc' = [tpc EXCEPT ![<<blk, tid>>] = "done"]
                  /\ fault' = fault
    /\ UNCHANGED << nb, pc, error, out, log, seed, start_time, end_time, benchVars,
                    kstep, a, b, c, a_gpu, b_gpu, block_size, grid_size, layout,
                    kernel, shmem, accessed >>

AllDone == \A th \in DOMAIN tpc : tpc[th] \in {"done", "exit"}

\* cuda.memcpy_dtoh(c, c_gpu): waits for the kernel, then copies c_gpu into
\* c; a kernel that faulted makes the copy raise.
K_Dtoh ==
    /\ nb = "kernel" /\ pc = "k_dtoh"
    /\ fault \/ AllDone
    /\ IF fault
       THEN /\ pc' = "failed"
            /\ error' = "LaunchError"
            /\ UNCHANGED << c, log >>
       ELSE /\ c' = [i \in DOMAIN c |-> c_gpu[i]]
            /\ Event("materialize")
            /\ pc' = "k_stop"
            /\ error' = error
    /\ kernel' = "none"
    /\ tpc' = << >>
    /\ shmem' = << >>
    /\ UNCHANGED << nb, out, seed, start_time, end_time, benchVars, kstep, a, b,
                    a_gpu, b_gpu, c_gpu, block_size, grid_size, layout, fault,
                    writers, accessed >>

\* end_time = time.time()
K_Stop ==
    /\ nb = "kernel" /\ pc = "k_stop"
    /\ \E t \in Times : end_time' = <<t>>
    /\ Event("stop")
    /\ pc' = "k_print"
    /\ UNCHANGED << nb, error, out, seed, start_time, benchVars, kernelVars >>

\* print("Execution Time (...):", end_time - start_time, "seconds"), then
\* the next cell
K_Print ==
    /\ nb = "kernel" /\ pc = "k_print"
    /\ Say(<<"Execution Time", <<kstep, end_time[1] - start_time[1]>> >>)
    /\ Event("print")
    /\ pc' = CASE kstep = 1 -> "k_compile2"
               [] kstep = 2 -> "k_config3"
               [] OTHER -> "done"
    /\ kstep' = IF kstep < 3 THEN kstep + 1 ELSE kstep
    /\ UNCHANGED << nb, error, seed, start_time, end_time, benchVars,
                    a, b, c, a_gpu, b_gpu, c_gpu, block_size, grid_size,
                    layout, kernel, tpc, shmem, fault, writers, accessed >>

ThreadStep ==
    \/ \E th \in DOMAIN tpc : T_Unopt(th[1], th[2])
    \/ \E th \in DOMAIN tpc : T_Load(th[1], th[2])
    \/ \E blk \in 0..(grid_size - 1) : T_Sync(blk)
    \/ \E th \in DOMAIN tpc : T_Add(th[1], th[2])

KernelNext ==
    \/ K_Setup \/ K_Compile2 \/ K_Config3
    \/ K_Start \/ K_Launch \/ ThreadStep \/ K_Dtoh \/ K_Stop \/ K_Print

BenchNext ==
    \/ Step2 \/ Step3 \/ Step4
    \/ MT_Bind \/ MT_Start \/ MT_Matmul \/ MT_Numpy \/ MT_Stop \/ MT_Return
    \/ Step5 \/ Step6

\* ------------------------------------------------------- specifications
Init == InitBench \/ InitKernel
Next == BenchNext \/ KernelNext
Spec == Init /\ [][Next]_vars

\* The add operation of Step 1 applied to operands of any lengths around N
\* (the kernel takes the buffers as bare pointers and N as a number).
Lens == {N - 1, N, N + 1}
AddSetup == \E la \in Lens, lb \in Lens : K_SetupWith(la, lb)
AddNext ==
    \/ AddSetup \/ K_Start \/ K_Launch
    \/ \E th \in DOMAIN tpc : T_Unopt(th[1], th[2])
    \/ K_Dtoh \/ K_Stop \/ K_Print
SpecAdd == InitKernel /\ [][AddNext]_vars

\* ------------------------------------------------------------- claims
Count(seq, e) == Cardinality({i \in 1..Len(seq) : seq[i] = e})
Printed(text) == \E i \in 1..Len(out) : out[i][1] = text
ThreadOfGid(i) == <<i \div block_size, i % block_size>>

\* C1: when the availability probe of Step 5 returns false, the run prints
\* "No GPU available. Skipping GPU computation.", never calls
\* measure_time('/GPU:0'), and has called measure_time('/CPU:0') exactly once.
C1_SkipWhenProbeFalse ==
    probe5 = <<FALSE>> =>
        /\ Printed("No GPU available. Skipping GPU computation.")
        /\ Count(log, "call_gpu") = 0
        /\ Count(log, "call_cpu") = 1
        /\ gpu_time = Unset
C1_Witness == nb = "bench" /\ pc = "done" /\ probe5 = <<FALSE>>

\* C2: a measure_time call whose device is absent raises and returns no
\* duration: it never gets past the matmul to the point where the elapsed
\* time is computed, and no GPU time is ever assigned.
C2_AbsentDeviceRaises ==
    (nb = "bench" /\ ~present) =>
        /\ pc \in {"mt_start", "mt_matmul", "failed"}
        /\ gpu_time = Unset

\* C3: within one measure call the events are, in this order, bind, start
\* clock, operation, materialization, stop clock, return (the kernel
\* notebook: start clock, launch, device-to-host copy, stop clock, print);
\* the value returned is stop minus start; the threads of a launch run
\* between the start and the stop reading; input generation and the
\* host-to-device copies come before every start reading.
C3_MeasureOrder ==
    /\ \A i \in 1..Len(log) :
          /\ log[i] = "bind" => (i > 1 /\ log[i - 1] \in {"call_cpu", "call_gpu"})
          /\ log[i] = "start" =>
                (i > 1 /\ log[i - 1] \in (IF nb = "bench" THEN {"bind"} ELSE {"htod", "print"}))
          /\ log[i] = "op" => (i > 1 /\ log[i - 1] = "start")
          /\ log[i] = "materialize" => (i > 1 /\ log[i - 1] = "op")
          /\ log[i] = "stop" => (i > 1 /\ log[i - 1] = "materialize")
          /\ log[i] \in {"return", "print"} => (i > 1 /\ log[i - 1] = "stop")
          /\ log[i] \in {"generate", "htod"} => (\A j \in 1..i : log[j] # "start")
    /\ kernel # "none" => log[Len(log)] = "op"
    /\ pc = "step5" => cpu_time = <<end_time[1] - start_time[1]>>
    /\ (pc = "step6" /\ gpu_time # Unset) => gpu_time = <<end_time[1] - start_time[1]>>
C3_Witness == nb = "bench" /\ pc = "step6" /\ Count(log, "return") = 2

\* C4: the add operation on operands of different lengths launches no add
\* kernel and produces no duration.
C4_MismatchRaises ==
    (nb = "kernel" /\ pc # "k_setup"
        /\ Cardinality(DOMAIN a_gpu) # Cardinality(DOMAIN b_gpu)) =>
        /\ Count(log, "op") = 0
        /\ out = << >>

\* C5: every duration returned by measure_time and every duration printed
\* by the three kernel timings is >= 0.
C5_NonNegativeDuration ==
    /\ cpu_time # Unset => cpu_time[1] >= 0
    /\ gpu_time # Unset => gpu_time[1] >= 0
    /\ \A i \in 1..Len(out) : out[i][1] = "Execution Time" => out[i][2][2] >= 0

\* C6: the GPU timing call returns a positive duration, and whenever the
\* comparison step takes its GPU branch, gpu_time was assigned by Step 5 and
\* is not zero, whatever the two probes answered.
C6_ComparisonSafe ==
    /\ gpu_time # Unset => gpu_time[1] > 0
    /\ probe6 = <<TRUE>> => (gpu_time # Unset /\ gpu_time[1] # 0)
    /\ error \notin {"NameError", "ZeroDivisionError"}

\* C7: the input operands keep the contents they were generated with: A and
\* B in the comparison notebook, a, b and their device copies a_gpu, b_gpu
\* in the kernel notebook, through every timing call and kernel launch.
C7_InputsReadOnly ==
    /\ A # Unset => (A = GenMatrix(seed, 1) /\ B = GenMatrix(seed, 2))
    /\ a # Unset =>
          /\ a = GenArray(seed, 1, N) /\ b = GenArray(seed, 2, N)
          /\ a_gpu = a /\ b_gpu = b
C7_Witness == nb = "kernel" /\ pc = "done" /\ Count(log, "print") = 3

\* C8: in every launch of matrix_add_shared_memory every index tid used on
\* shared_a and shared_b lies within the declared bounds 0 .. SharedLen-1.
C8_SharedIndexInBounds == accessed \subseteq 0..(SharedLen - 1)

\* C9: in every launch no element of c is written by two threads, element i
\* is written only by the thread with gid = i, and when the kernel has
\* finished every element i < N was written exactly once and holds
\* a[i] + b[i].
C9_ExactlyOnceAndCorrect ==
    kernel # "none" =>
        /\ \A i \in DOMAIN writers : writers[i] \subseteq {ThreadOfGid(i)}
        /\ (AllDone /\ ~fault) =>
              \A i \in 0..(N - 1) :
                 /\ writers[i] = {ThreadOfGid(i)}
                 /\ c_gpu[i] = a_gpu[i] + b_gpu[i]

\* C10: in every launch of matrix_add_shared_memory every thread has
\* gid < N, so none leaves without reaching the barrier, no block is left
\* waiting at a barrier that cannot open, and the launch comes to an end.
C10_BarrierConverges ==
    /\ kernel = "shared" =>
          /\ \A th \in DOMAIN tpc : Gid(th[1], th[2]) < N /\ tpc[th] # "exit"
          /\ (~fault /\ ~AllDone) => ENABLED ThreadStep
    /\ (nb = "kernel" /\ pc = "k_dtoh") => ENABLED (ThreadStep \/ K_Dtoh)
C10_Witness == kstep = 3 /\ kernel = "shared" /\ AllDone /\ ~fault
=============================================================================
